---- MODULE Spec2Model ----
(***************************************************************************)
(* Model of the ai-studynotes backend: the API Lambda (api-function) that  *)
(* creates, lists, reads and deletes task records, and the worker Lambda   *)
(* (worker-function) that consumes SQS batches and drives each task        *)
(* through PROCESSING to DONE or ERROR; loadConfig with its cache, and the *)
(* variant of the API handler that extracts the caller's identity from    *)
(* the Authorization header.                                              *)
(*                                                                         *)
(* A DynamoDB item is a record whose DOMAIN is the set of attributes the   *)
(* item carries; the table is a function from the ids it holds to items.   *)
(* A JS string is a sequence of one-character strings.  A timestamp is the *)
(* clock reading it was formatted from (toISOString of a four-digit year   *)
(* orders as the reading does).                                            *)
(***************************************************************************)
EXTENDS Integers, Sequences, FiniteSets, TLC

VARIABLES
  store,   \* the DynamoDB table: [ids held -> item]
  issued,  \* history: ids crypto.randomUUID() gave to a Create that wrote
  live,    \* history: ids created through the API and not deleted since
  queue,   \* the SQS queue: set of messages [messageId, body]
  wk,      \* worker invocations: [Workers -> local state of the handler]
  now,     \* the clock read by Date.now() / new Date()
  resp,    \* the response the API handler returned in the last step, if any
  report,  \* the batch report the worker returned in the last step, if any
  cache,   \* cachedConfig and cachedAt of each runtime instance
  loaded   \* what loadConfig did and gave in the last step, if called

vars == <<store, issued, live, queue, wk, now, resp, report, cache, loaded>>

----------------------------------------------------------------------------
(* Bounds *)

MaxTime == 1
MaxQueue == 2
MaxBatch == MaxQueue

Ids == {"a", "b"}
Workers == {"w1", "w2"}
SP == " "
EmptyStr == <<>>
NULL == "NULL"

\* request bodies of POST /tasks: invalid JSON, no topic, blank, padded
NotJson == [raw |-> "not json"]
EmptyObj == <<>>
ReqBodies ==
  { NotJson, EmptyObj, [topic |-> <<SP>>], [topic |-> <<SP, "t", SP>>] }

\* faults of the services a handler calls after its configuration is loaded
ApiFaults == {"none", "dynamodb", "sqs"}

\* what the SSM parameters give the API handler
ApiConfigs ==
  { [loaded |-> FALSE, tableName |-> FALSE, queueUrl |-> FALSE],
    [loaded |-> TRUE,  tableName |-> FALSE, queueUrl |-> FALSE],
    [loaded |-> TRUE,  tableName |-> TRUE,  queueUrl |-> FALSE],
    [loaded |-> TRUE,  tableName |-> TRUE,  queueUrl |-> TRUE] }

\* what loadConfig gives the worker: it throws, or yields sns-topic-arn or not
WorkerConfigs ==
  { [loaded |-> FALSE, sns |-> FALSE],
    [loaded |-> TRUE,  sns |-> FALSE],
    [loaded |-> TRUE,  sns |-> TRUE] }

\* answers of the generation backend: the request fails in transport, an
\* HTTP error, or a JSON envelope
GenResponses ==
  { [rejected |-> TRUE],
    [ok |-> FALSE],
    [ok |-> TRUE, output_text |-> <<"m">>],
    [ok |-> TRUE, output_text |-> <<SP>>],
    [ok |-> TRUE, unknown |-> TRUE] }

----------------------------------------------------------------------------
(* Strings *)

TrimNothing(s) == s

RECURSIVE TrimStart(_)
TrimStart(s) == IF s # <<>> /\ Head(s) = SP THEN TrimStart(Tail(s)) ELSE s

RECURSIVE TrimEnd(_)
TrimEnd(s) ==
  IF s # <<>> /\ s[Len(s)] = SP THEN TrimEnd(SubSeq(s, 1, Len(s) - 1)) ELSE s

TrimStartOnly(s) == TrimStart(s)

Trim(s) == TrimEnd(TrimStart(s))

----------------------------------------------------------------------------
(* DynamoDB *)

Has(item, attr) == attr \in DOMAIN item

\* ConditionExpression: "attribute_not_exists(id)"
ConditionFailsAlwaysPass(st, id) == FALSE

ConditionFails(st, id) == id \in DOMAIN st

\* PutCommand: the item replaces whatever the key held
PutItem(st, item) ==
  [i \in DOMAIN st \cup {item.id} |-> IF i = item.id THEN item ELSE st[i]]

\* DeleteCommand
DeleteItemAll(st, id) == <<>>

DeleteItem(st, id) == [i \in DOMAIN st \ {id} |-> st[i]]

\* UpdateCommand with SET sets REMOVE removes, no ConditionExpression: the
\* update applies to the item under the key and, when the key holds none,
\* to a new item that has the key alone.
UpdateItemReplace(st, id, sets, removes) ==
  [i \in DOMAIN st \cup {id} |->
     IF i = id
       THEN [k \in DOMAIN sets \cup {"id"} |->
               IF k \in DOMAIN sets THEN sets[k] ELSE id]
       ELSE st[i]]

UpdateItem(st, id, sets, removes) ==
  LET old  == IF id \in DOMAIN st THEN st[id] ELSE [id |-> id]
      keys == (DOMAIN old \cup DOMAIN sets) \ removes
      new  == [k \in keys |-> IF k \in DOMAIN sets THEN sets[k] ELSE old[k]]
  IN  [i \in DOMAIN st \cup {id} |-> IF i = id THEN new ELSE st[i]]

\* the items the index byCreatedAt holds under pk = "TASK": an item that
\* lacks an index key attribute is not in the index
IndexIds(st) ==
  { i \in DOMAIN st :
      /\ Has(st[i], "pk") /\ Has(st[i], "createdAt")
      /\ st[i].pk = "TASK" }

\* the index key of an item, and of a LastEvaluatedKey: the index keys pk
\* and createdAt, and the table key id
KeyOf(item) == [pk |-> item.pk, createdAt |-> item.createdAt, id |-> item.id]

\* the order the index keeps among items of equal createdAt is the store's
\* own: some fixed order of the table keys
IdOrder == <<"a", "b", "c">>

IdRank(id) == CHOOSE n \in DOMAIN IdOrder : IdOrder[n] = id

\* key k comes before key l when the index is read with ScanIndexForward
\* false: a later createdAt first
IndexBeforeOrAt(k, l) ==
  \/ k.createdAt > l.createdAt
  \/ k.createdAt = l.createdAt /\ IdRank(k.id) <= IdRank(l.id)

IndexOldestFirst(k, l) ==
  \/ k.createdAt < l.createdAt
  \/ k.createdAt = l.createdAt /\ IdRank(k.id) < IdRank(l.id)

IndexBefore(k, l) ==
  \/ k.createdAt > l.createdAt
  \/ k.createdAt = l.createdAt /\ IdRank(k.id) < IdRank(l.id)

\* ScanIndexForward: false -- newest first
RECURSIVE NewestFirst(_, _)
NewestFirst(st, ids) ==
  IF ids = {} THEN <<>>
  ELSE LET top == CHOOSE i \in ids :
                    \A j \in ids \ {i} : IndexBefore(KeyOf(st[i]), KeyOf(st[j]))
       IN  <<top>> \o NewestFirst(st, ids \ {top})

QueryAll(st) == NewestFirst(st, IndexIds(st))

NoKey == <<>>

\* every attribute an item can carry
ProjectedAll == {"id", "pk", "topic", "status", "createdAt", "updatedAt",
                 "researchMd", "error"}

\* ProjectionExpression: "id, topic, #s, createdAt, updatedAt"
Projected == {"id", "topic", "status", "createdAt", "updatedAt"}

Projection(item) == [k \in DOMAIN item \cap Projected |-> item[k]]

\* Limit has to be a whole number of at least 1 and ExclusiveStartKey a key
\* of the index, or the store rejects the request
ValidLimit(Limit) == Has(Limit, "n") /\ Limit.n >= 1

ValidStartKey(key) == key = NoKey \/ DOMAIN key = {"pk", "createdAt", "id"}

\* QueryCommand on byCreatedAt with Limit and ExclusiveStartKey: the store
\* reads on from the position of the start key, stops after Limit items and
\* then reports the key of the last item it read as LastEvaluatedKey
QueryCommand(st, Limit, ExclusiveStartKey) ==
  IF ~ValidLimit(Limit) \/ ~ValidStartKey(ExclusiveStartKey)
    THEN [ok |-> FALSE, message |-> "ValidationException"]
  ELSE
    LET rest == SelectSeq(QueryAll(st), LAMBDA i :
                  \/ ExclusiveStartKey = NoKey
                  \/ IndexBefore(ExclusiveStartKey, KeyOf(st[i])))
        n    == IF Limit.n < Len(rest) THEN Limit.n ELSE Len(rest)
    IN  [ok |-> TRUE,
         Items |-> [k \in 1..n |-> Projection(st[rest[k]])],
         LastEvaluatedKey |->
           IF Len(rest) >= Limit.n THEN KeyOf(st[rest[n]]) ELSE NoKey]

----------------------------------------------------------------------------
(* API handler *)

cors == "Access-Control-Allow-Origin: *"

NoResp == [event |-> [httpMethod |-> "none"]]
NoReport == [worker |-> "none"]

\* the response, with the request it answers
res(op, statusCode, data) ==
  [event |-> op, statusCode |-> statusCode, headers |-> cors, body |-> data]

\* catch (err): res(500, { message: "Server error", error: err?.message })
ServerErrorNoDetail(op, msg) == res(op, 500, [message |-> "Server error"])

ServerError(op, msg) == res(op, 500, [message |-> "Server error", error |-> msg])

NoTable(op) == res(op, 500, [message |-> "dynamo-db-table-name not set"])

TopicOf(body) == IF Has(body, "topic") THEN body.topic ELSE EmptyStr

\* The queue gives each message an id of its own.  The queue of the model
\* holds no two messages with the same body, and names a message after its
\* body.
MessageId(body) ==
  IF Has(body, "raw") THEN <<"not-json">>
  ELSE IF ~Has(body, "id") THEN <<"no-id">>
  ELSE IF ~Has(body, "topic") THEN <<"no-topic", body.id>>
  ELSE <<"task", body.id, body.requestedAt>>

MessageWrongTopic(body) ==
  [messageId |-> MessageId(body), body |-> [body EXCEPT !.topic = <<"x">>]]

Message(body) == [messageId |-> MessageId(body), body |-> body]

\* crypto.randomUUID() can return id: a version 4 UUID does not repeat, so
\* the id is one no Create was given before; the id of a record the store
\* still holds is let through as well, the collision the conditional write
\* is there for.
randomUUID(id) == id \notin issued \/ id \in DOMAIN store

\* POST /tasks
Create(id, body, cfg, fault) ==
  LET op    == [httpMethod |-> "POST", resource |-> "/tasks", body |-> body]
      topic == Trim(TopicOf(body))
      item  == [id |-> id, pk |-> "TASK", topic |-> topic, status |-> "QUEUED",
                createdAt |-> now, updatedAt |-> now,
                researchMd |-> EmptyStr, error |-> NULL]
      sqsPayload == [id |-> id, topic |-> topic, requestedAt |-> now,
                     taskType |-> "RESEARCH_SUMMARY_V1"]
  IN
  /\ UNCHANGED <<wk, now, cache, loaded>>
  /\ report' = NoReport
  /\ IF ~cfg.loaded
       THEN /\ resp' = ServerError(op, "ssm")
            /\ UNCHANGED <<store, issued, live, queue>>
     ELSE IF ~cfg.tableName
       THEN /\ resp' = NoTable(op)
            /\ UNCHANGED <<store, issued, live, queue>>
     ELSE IF body = NotJson
       THEN /\ resp' = res(op, 400, [message |-> "Invalid JSON"])
            /\ UNCHANGED <<store, issued, live, queue>>
     ELSE IF topic = EmptyStr
       THEN /\ resp' = res(op, 422, [message |-> "Field 'topic' is required"])
            /\ UNCHANGED <<store, issued, live, queue>>
     ELSE IF ~randomUUID(id)
       THEN FALSE
     ELSE IF fault = "dynamodb"
       THEN /\ resp' = ServerError(op, "dynamodb")
            /\ UNCHANGED <<store, issued, live, queue>>
     ELSE IF ConditionFails(store, id)
       THEN /\ resp' = ServerError(op, "The conditional request failed")
            /\ UNCHANGED <<store, issued, live, queue>>
     ELSE /\ store' = PutItem(store, item)
          /\ issued' = issued \cup {id}
          /\ live' = live \cup {id}
          /\ IF ~cfg.queueUrl
               THEN /\ queue' = queue
                    /\ resp' = res(op, 201, [id |-> id, topic |-> topic,
                                     status |-> "QUEUED", createdAt |-> now])
             ELSE IF fault = "sqs"
               THEN /\ queue' = queue
                    /\ resp' = ServerError(op, "sqs")
             ELSE /\ Cardinality(queue) < MaxQueue
                  /\ queue' = queue \cup {Message(sqsPayload)}
                  /\ resp' = res(op, 201, [id |-> id, topic |-> topic,
                                   status |-> "QUEUED", createdAt |-> now])

\* GET /tasks/{id}
Get(id, cfg, fault) ==
  LET op == [httpMethod |-> "GET", resource |-> "/tasks/{id}", id |-> id] IN
  /\ UNCHANGED <<store, issued, live, queue, wk, now, cache, loaded>>
  /\ report' = NoReport
  /\ resp' = IF ~cfg.loaded THEN ServerError(op, "ssm")
             ELSE IF ~cfg.tableName THEN NoTable(op)
             ELSE IF fault = "dynamodb" THEN ServerError(op, "dynamodb")
             ELSE IF id \notin DOMAIN store
               THEN res(op, 404, [message |-> "Not Found"])
             ELSE res(op, 200, store[id])

\* DELETE /tasks/{id}
Delete(id, cfg, fault) ==
  LET op == [httpMethod |-> "DELETE", resource |-> "/tasks/{id}", id |-> id]
  IN
  /\ UNCHANGED <<issued, queue, wk, now, cache, loaded>>
  /\ report' = NoReport
  /\ IF ~cfg.loaded
       THEN resp' = ServerError(op, "ssm") /\ UNCHANGED <<store, live>>
     ELSE IF ~cfg.tableName
       THEN resp' = NoTable(op) /\ UNCHANGED <<store, live>>
     ELSE IF fault = "dynamodb"
       THEN resp' = ServerError(op, "dynamodb") /\ UNCHANGED <<store, live>>
     ELSE /\ store' = DeleteItem(store, id)
          /\ live' = live \ {id}
          /\ resp' = res(op, 204, "")

\* OPTIONS: answered before the configuration is loaded
Options ==
  LET op == [httpMethod |-> "OPTIONS", resource |-> "/tasks"] IN
  /\ UNCHANGED <<store, issued, live, queue, wk, now, cache, loaded>>
  /\ report' = NoReport
  /\ resp' = [event |-> op, statusCode |-> 200, headers |-> cors, body |-> ""]

\* a method and resource no route matches
NoRoute(cfg) ==
  LET op == [httpMethod |-> "PUT", resource |-> "/tasks"] IN
  /\ UNCHANGED <<store, issued, live, queue, wk, now, cache, loaded>>
  /\ report' = NoReport
  /\ resp' = IF ~cfg.loaded THEN ServerError(op, "ssm")
             ELSE IF ~cfg.tableName THEN NoTable(op)
             ELSE res(op, 404, [message |-> "Not Found"])

\* query string parameters: absent, or the text of a number, or other text
NoParam == <<>>
NaN == [nan |-> TRUE]
DefaultLimit == 25
MaxLimit == 100

\* Math.min(Number(qs.limit || 25), 100)
LimitOfUncapped(limit) ==
  IF limit = NoParam THEN [n |-> DefaultLimit] ELSE limit

LimitOf(limit) ==
  IF limit = NoParam THEN [n |-> DefaultLimit]
  ELSE IF Has(limit, "nan") THEN NaN
  ELSE IF limit.n < MaxLimit THEN limit ELSE [n |-> MaxLimit]

\* JSON.stringify of a key: its members, name and value, in order; and
\* JSON.parse, which throws on a text that is no member list
KeyAttrs == <<"pk", "createdAt", "id">>

Stringify(key) == [k \in DOMAIN KeyAttrs |-> <<KeyAttrs[k], key[KeyAttrs[k]]>>]

IsMembers(text) == \A k \in DOMAIN text : Len(text[k]) = 2

ParseNoId(text) ==
  [name \in { text[k][1] : k \in DOMAIN text } \ {"id"} |->
     text[CHOOSE k \in DOMAIN text : text[k][1] = name][2]]

Parse(text) ==
  [name \in { text[k][1] : k \in DOMAIN text } |->
     text[CHOOSE k \in DOMAIN text : text[k][1] = name][2]]

\* Buffer.from(text).toString("base64") and Buffer.from(b, "base64")
ToBase64(text) == [base64 |-> text]

FromBase64(cursor) == cursor.base64

EncodeCursor(key) == IF key = NoKey THEN NoParam ELSE ToBase64(Stringify(key))

NotACursor == ToBase64(<< <<"#">> >>)

\* a response, with the QueryCommand input the handler sent to the store
Queried(r, input) ==
  [event |-> r.event, statusCode |-> r.statusCode, headers |-> r.headers,
   body |-> r.body, QueryCommand |-> input]

\* the QueryCommand input GET /tasks builds from limit and cursor
ListQuery(limit, cursor) ==
  [Limit |-> LimitOf(limit),
   ExclusiveStartKey |->
     IF cursor = NoParam THEN NoKey ELSE Parse(FromBase64(cursor))]

\* { items: out.Items || [], cursor }
ListResult(out) ==
  [items |-> out.Items, cursor |-> EncodeCursor(out.LastEvaluatedKey)]

\* GET /tasks
List(limit, cursor, cfg, fault) ==
  LET op    == [httpMethod |-> "GET", resource |-> "/tasks",
                limit |-> limit, cursor |-> cursor]
      input == ListQuery(limit, cursor)
      out   == QueryCommand(store, input.Limit, input.ExclusiveStartKey)
  IN
  /\ UNCHANGED <<store, issued, live, queue, wk, now, cache, loaded>>
  /\ report' = NoReport
  /\ resp' = IF ~cfg.loaded THEN ServerError(op, "ssm")
             ELSE IF ~cfg.tableName THEN NoTable(op)
             ELSE IF cursor # NoParam /\ ~IsMembers(FromBase64(cursor))
               THEN ServerError(op, "Unexpected token")
             ELSE IF fault = "dynamodb"
               THEN Queried(ServerError(op, "dynamodb"), input)
             ELSE IF ~out.ok
               THEN Queried(ServerError(op, out.message), input)
             ELSE Queried(res(op, 200, ListResult(out)), input)

----------------------------------------------------------------------------
(* Worker handler *)

IsJson(body) == ~Has(body, "raw")

\* extractMarkdown: the first envelope shape that yields non-blank text
extractMarkdown(data) ==
  IF Has(data, "output_text") /\ Trim(data.output_text) # EmptyStr
    THEN Trim(data.output_text)
  ELSE IF Has(data, "output") /\ Trim(data.output) # EmptyStr
    THEN Trim(data.output)
  ELSE IF Has(data, "content") /\ Trim(data.content) # EmptyStr
    THEN Trim(data.content)
  ELSE EmptyStr

\* callOpenAIWithPrompt: [ok, md] on success, [ok, message] when it throws
callOpenAIAcceptEmpty(data) ==
  IF Has(data, "rejected") THEN [ok |-> FALSE, message |-> "fetch failed"]
  ELSE IF ~data.ok THEN [ok |-> FALSE, message |-> "OpenAI 500"]
  ELSE [ok |-> TRUE, md |-> extractMarkdown(data)]

callOpenAIWithPrompt(data) ==
  IF Has(data, "rejected") THEN [ok |-> FALSE, message |-> "fetch failed"]
  ELSE IF ~data.ok THEN [ok |-> FALSE, message |-> "OpenAI 500"]
  ELSE IF extractMarkdown(data) = EmptyStr
    THEN [ok |-> FALSE, message |-> "Empty OpenAI response"]
  ELSE [ok |-> TRUE, md |-> extractMarkdown(data)]

Idle == [pc |-> "idle"]

\* return { batchItemFailures: failures }
ReturnNone(w, batch, failures) ==
  [worker |-> w, batch |-> batch, batchItemFailures |-> <<>>]

Return(w, batch, failures) ==
  [worker |-> w, batch |-> batch, batchItemFailures |-> failures]

Rec(w) == wk[w].batch[wk[w].i]

\* sequences of distinct queue messages, as SQS hands them to one invocation
BatchesUpTo(n) == { b \in UNION { [1..k -> queue] : k \in 1..n } :
                      \A p, q \in DOMAIN b : p # q => b[p] # b[q] }

\* the queue deletes the delivered messages the report does not name
Acked(batch, failures) ==
  { batch[k] : k \in { k \in DOMAIN batch :
       \A f \in DOMAIN failures : failures[f].itemIdentifier # batch[k].messageId } }

\* the loop moves to the next record, or the handler returns its report
NextRecord(w, failures) ==
  IF wk[w].i < Len(wk[w].batch)
    THEN /\ wk' = [wk EXCEPT ![w] = [pc |-> "begin", batch |-> wk[w].batch,
                     i |-> wk[w].i + 1, failures |-> failures,
                     sns |-> wk[w].sns]]
         /\ queue' = queue
         /\ report' = NoReport
    ELSE /\ wk' = [wk EXCEPT ![w] = Idle]
         /\ queue' = queue \ Acked(wk[w].batch, failures)
         /\ report' = Return(w, wk[w].batch, failures)

\* catch (err): failures.push({ itemIdentifier: rec.messageId })
CaughtTwice(w, message) ==
  /\ wk' = [wk EXCEPT ![w] = [pc |-> "catch", batch |-> wk[w].batch,
              i |-> wk[w].i, sns |-> wk[w].sns, err |-> message,
              failures |-> wk[w].failures \o
                 << [itemIdentifier |-> Rec(w).messageId],
                    [itemIdentifier |-> Rec(w).messageId] >>]]
  /\ queue' = queue
  /\ report' = NoReport

Caught(w, message) ==
  /\ wk' = [wk EXCEPT ![w] = [pc |-> "catch", batch |-> wk[w].batch,
              i |-> wk[w].i, sns |-> wk[w].sns, err |-> message,
              failures |-> Append(wk[w].failures,
                                  [itemIdentifier |-> Rec(w).messageId])]]
  /\ queue' = queue
  /\ report' = NoReport

\* handler entry: loadConfig, then the first record
WorkerStart(w, batch, cfg) ==
  /\ wk[w].pc = "idle"
  /\ batch \in BatchesUpTo(MaxBatch)
  /\ UNCHANGED <<store, issued, live, queue, now, cache, loaded>>
  /\ resp' = NoResp
  /\ IF ~cfg.loaded
       THEN /\ wk' = wk
            /\ report' = Return(w, batch,
                  [k \in DOMAIN batch |->
                     [itemIdentifier |-> batch[k].messageId]])
       ELSE /\ wk' = [wk EXCEPT ![w] = [pc |-> "begin", batch |-> batch,
                        i |-> 1, failures |-> <<>>, sns |-> cfg.sns]]
            /\ report' = NoReport

\* if (!id || !topic) throw new Error("Message must contain id and topic")
MissingIdOrTopicIdOnly(msg) == ~Has(msg, "id")

MissingIdOrTopic(msg) ==
  ~Has(msg, "id") \/ ~Has(msg, "topic") \/ msg.topic = EmptyStr

\* SET #s = :s, updatedAt = :t
ProcessingUpdateRequeue == [status |-> "QUEUED", updatedAt |-> now]

ProcessingUpdate == [status |-> "PROCESSING", updatedAt |-> now]

\* SET researchMd = :md, #s = :s, updatedAt = :t REMOVE #e
DoneUpdateKeepStatus(markdown) == [researchMd |-> markdown, updatedAt |-> now]

DoneUpdate(markdown) ==
  [researchMd |-> markdown, status |-> "DONE", updatedAt |-> now]

\* SET #e = :e, #s = :s, updatedAt = :t
ErrorUpdateKeepStatus(message) == [error |-> message, updatedAt |-> now]

ErrorUpdate(message) ==
  [error |-> message, status |-> "ERROR", updatedAt |-> now]

\* JSON.parse, the id/topic check and the PROCESSING write
WorkerBegin(w, ddbFault) ==
  LET msg == Rec(w).body IN
  /\ wk[w].pc = "begin"
  /\ UNCHANGED <<issued, live, now, cache, loaded>>
  /\ resp' = NoResp
  /\ IF ~IsJson(msg)
       THEN Caught(w, "Unexpected token") /\ store' = store
     ELSE IF MissingIdOrTopic(msg)
       THEN Caught(w, "Message must contain id and topic") /\ store' = store
     ELSE IF ddbFault
       THEN Caught(w, "dynamodb") /\ store' = store
     ELSE /\ store' = UpdateItem(store, msg.id, ProcessingUpdate, {})
          /\ wk' = [wk EXCEPT ![w].pc = "generate"]
          /\ queue' = queue
          /\ report' = NoReport

\* const markdown = await callOpenAIWithPrompt(topic, ...)
WorkerGenerate(w, data) ==
  LET out == callOpenAIWithPrompt(data) IN
  /\ wk[w].pc = "generate"
  /\ UNCHANGED <<store, issued, live, now, cache, loaded>>
  /\ resp' = NoResp
  /\ IF out.ok
       THEN /\ wk' = [wk EXCEPT ![w] = [pc |-> "done", batch |-> wk[w].batch,
                        i |-> wk[w].i, sns |-> wk[w].sns,
                        failures |-> wk[w].failures, markdown |-> out.md]]
            /\ queue' = queue
            /\ report' = NoReport
       ELSE Caught(w, out.message)

\* the DONE write, then the notification when sns-topic-arn is set
WorkerWriteDone(w, ddbFault) ==
  LET msg == Rec(w).body IN
  /\ wk[w].pc = "done"
  /\ UNCHANGED <<issued, live, now, cache, loaded>>
  /\ resp' = NoResp
  /\ IF ddbFault
       THEN Caught(w, "dynamodb") /\ store' = store
     ELSE /\ store' = UpdateItem(store, msg.id, DoneUpdate(wk[w].markdown),
                        {"error"})
          /\ IF wk[w].sns
               THEN /\ wk' = [wk EXCEPT ![w] = [pc |-> "notify",
                                batch |-> wk[w].batch, i |-> wk[w].i,
                                sns |-> wk[w].sns,
                                failures |-> wk[w].failures]]
                    /\ queue' = queue
                    /\ report' = NoReport
               ELSE NextRecord(w, wk[w].failures)

\* await sns.send(new PublishCommand(...)), inside the record's try block
WorkerNotify(w, snsFault) ==
  /\ wk[w].pc = "notify"
  /\ UNCHANGED <<store, issued, live, now, cache, loaded>>
  /\ resp' = NoResp
  /\ IF snsFault THEN Caught(w, "sns")
     ELSE NextRecord(w, wk[w].failures)

\* the catch block after the push: parse again and mark ERROR under safe.id
WorkerCatch(w, ddbFault) ==
  LET safe == Rec(w).body IN
  /\ wk[w].pc = "catch"
  /\ UNCHANGED <<issued, live, now, cache, loaded>>
  /\ resp' = NoResp
  /\ store' = IF IsJson(safe) /\ Has(safe, "id") /\ ~ddbFault
                THEN UpdateItem(store, safe.id, ErrorUpdate(wk[w].err), {})
                ELSE store
  /\ NextRecord(w, wk[w].failures)

----------------------------------------------------------------------------
(* Config via SSM Parameter Store: loadConfig of the API and of the worker *)

\* one step of the clock in milliseconds, and the TTL the environment sets
\* with CONFIG_TTL_MS
TickMs == 500
CONFIG_TTL_MS == 1000

\* Date.now() at clock reading t
DateNow(t) == t * TickMs

\* each Lambda has a cache of its own
Runtimes == {"api", "worker"}

\* let cachedConfig = null; let cachedAt = 0
NotCached == [cachedAt |-> 0]

NoCall == [runtime |-> "none"]

\* const required = [...]: the worker checks three keys, the API none
requiredNone(runtime) == {}

required(runtime) ==
  IF runtime = "worker"
    THEN {"dynamo-db-table-name", "openai-api-key", "openai-prompt-id"}
    ELSE {}

\* for (const p of out.Parameters ?? []) params[key] = p.Value
Merge(params, Parameters) ==
  [k \in DOMAIN params \cup DOMAIN Parameters |->
     IF k \in DOMAIN Parameters THEN Parameters[k] ELSE params[k]]

\* the do/while over the pages: answers[k] is what the k-th
\* GetParametersByPathCommand gets; sent counts the commands sent
RECURSIVE Drain(_, _, _)
Drain(answers, k, params) ==
  IF Has(answers[k], "rejected") THEN [threw |-> TRUE, sent |-> k]
  ELSE LET merged == Merge(params, answers[k].Parameters) IN
       IF answers[k].NextToken THEN Drain(answers, k + 1, merged)
       ELSE [threw |-> FALSE, params |-> merged, sent |-> k]

\* if (cachedConfig && now - cachedAt < CONFIG_TTL_MS) return cachedConfig
FreshUpToTtl(c, t) ==
  Has(c, "cachedConfig") /\ DateNow(t) - c.cachedAt <= CONFIG_TTL_MS

Fresh(c, t) ==
  Has(c, "cachedConfig") /\ DateNow(t) - c.cachedAt < CONFIG_TTL_MS

\* loadConfig called at clock reading t with cache c: the cache after the
\* call, whether it threw, what it returned, how many commands it sent
loadConfig(runtime, c, t, answers) ==
  IF Fresh(c, t)
    THEN [cache |-> c, threw |-> FALSE, params |-> c.cachedConfig, sent |-> 0]
  ELSE LET d == Drain(answers, 1, <<>>) IN
       IF d.threw
         THEN [cache |-> c, threw |-> TRUE, sent |-> d.sent]
       ELSE IF required(runtime) \ DOMAIN d.params # {}
         THEN [cache |-> c, threw |-> TRUE, sent |-> d.sent]
       ELSE [cache |-> [cachedConfig |-> d.params, cachedAt |-> DateNow(t)],
             threw |-> FALSE, params |-> d.params, sent |-> d.sent]

\* a handler of the runtime calls loadConfig
CallLoadConfig(runtime, answers) ==
  LET out == loadConfig(runtime, cache[runtime], now, answers) IN
  /\ cache' = [cache EXCEPT ![runtime] = out.cache]
  /\ loaded' = [runtime |-> runtime, at |-> now, answers |-> answers,
                before |-> cache[runtime], out |-> out]
  /\ UNCHANGED <<store, issued, live, queue, wk, now>>
  /\ resp' = NoResp
  /\ report' = NoReport

----------------------------------------------------------------------------
(* Environment *)

\* bodies no Create wrote: not JSON, without id, without topic
MalformedBodies(ids) ==
  {NotJson} \cup { [topic |-> <<"t">>] } \cup { [id |-> i] : i \in ids }

\* some other producer sends a malformed message to the queue
ExternalSend(body) ==
  /\ Cardinality(queue) < MaxQueue
  /\ Message(body) \notin queue
  /\ queue' = queue \cup {Message(body)}
  /\ UNCHANGED <<store, issued, live, wk, now, cache, loaded>>
  /\ resp' = NoResp
  /\ report' = NoReport

Tick ==
  /\ now < MaxTime
  /\ now' = now + 1
  /\ UNCHANGED <<store, issued, live, queue, wk, cache, loaded>>
  /\ resp' = NoResp
  /\ report' = NoReport

Init ==
  /\ store = <<>>
  /\ issued = {}
  /\ live = {}
  /\ queue = {}
  /\ wk = [w \in Workers |-> Idle]
  /\ now = 0
  /\ resp = NoResp
  /\ report = NoReport
  /\ cache = [r \in Runtimes |-> NotCached]
  /\ loaded = NoCall

\* the requests that differ in something the handler reads: an input the
\* handler returns before reading is left at one value
CfgOk(cfg) == cfg.loaded /\ cfg.tableName

CreateInputs(ids) ==
  { r \in [id : ids, body : ReqBodies, cfg : ApiConfigs, fault : ApiFaults] :
      /\ ~CfgOk(r.cfg) => r.body = NotJson /\ ~r.cfg.queueUrl
      /\ (~CfgOk(r.cfg) \/ Trim(TopicOf(r.body)) = EmptyStr) =>
            r.id = (CHOOSE i \in ids : TRUE) /\ r.fault = "none"
      /\ r.fault = "sqs" => r.cfg.queueUrl }

KeyInputs(ids) ==
  { r \in [id : ids, cfg : ApiConfigs, fault : ApiFaults] :
      /\ ~r.cfg.queueUrl
      /\ r.fault # "sqs"
      /\ ~CfgOk(r.cfg) => r.id = (CHOOSE i \in ids : TRUE) /\ r.fault = "none" }

\* limit and cursor parameters of GET /tasks: none, text that is no number,
\* numbers below 1, small, and above the cap; no cursor, text that is no
\* cursor, and the cursor of every key
Limits == {NoParam, NaN, [n |-> 0], [n |-> 1], [n |-> 2], [n |-> MaxLimit + 1]}

Cursors(ids) ==
  {NoParam, NotACursor} \cup
  { EncodeCursor([pk |-> "TASK", createdAt |-> t, id |-> i]) :
      t \in 0..MaxTime, i \in ids }

ListInputs(limits, cursors) ==
  { r \in [limit : limits, cursor : cursors, cfg : ApiConfigs,
           fault : ApiFaults] :
      /\ ~r.cfg.queueUrl
      /\ r.fault # "sqs"
      /\ ~CfgOk(r.cfg) =>
            r.limit = NoParam /\ r.cursor = NoParam /\ r.fault = "none"
      /\ r.cursor = NotACursor => r.limit = NoParam /\ r.fault = "none"
      /\ r.fault # "none" => r.limit = NoParam /\ r.cursor = NoParam
      /\ ~ValidLimit(r.limit) => r.cursor = NoParam
      /\ (Has(r.limit, "n") /\ r.limit.n > MaxLimit) => r.cursor = NoParam }

\* GET /tasks without parameters, served without a fault
DefaultListInputs ==
  { r \in ListInputs({NoParam}, {NoParam}) : CfgOk(r.cfg) /\ r.fault = "none" }

\* the API handler serving one request about the tasks ids
ApiNext(ids) ==
  \/ \E r \in CreateInputs(ids) : Create(r.id, r.body, r.cfg, r.fault)
  \/ \E r \in KeyInputs(ids) : Get(r.id, r.cfg, r.fault)
  \/ \E r \in KeyInputs(ids) : Delete(r.id, r.cfg, r.fault)

\* one worker invocation taking its next step
WorkerNext(w) ==
  \/ \E batch \in BatchesUpTo(MaxBatch), cfg \in WorkerConfigs :
       WorkerStart(w, batch, cfg)
  \/ \E ddbFault \in BOOLEAN : WorkerBegin(w, ddbFault)
  \/ \E data \in GenResponses : WorkerGenerate(w, data)
  \/ \E ddbFault \in BOOLEAN : WorkerWriteDone(w, ddbFault)
  \/ \E snsFault \in BOOLEAN : WorkerNotify(w, snsFault)
  \/ \E ddbFault \in BOOLEAN : WorkerCatch(w, ddbFault)

\* One task id, one worker invocation at a time, every fault of every
\* service, malformed messages; all within one reading of the clock.
Solo == {"a"}

Next ==
  \/ ApiNext(Solo)
  \/ \E r \in DefaultListInputs : List(r.limit, r.cursor, r.cfg, r.fault)
  \/ WorkerNext("w1")
  \/ \E body \in MalformedBodies(Solo) : ExternalSend(body)

Spec == Init /\ [][Next]_vars

\* Three task ids and a clock that moves: requests of every kind to the API
\* handler, no worker invocation.
Trio == {"a", "b", "c"}

\* requests outside the task routes: a preflight, an unknown route
OtherNext ==
  \/ Options
  \/ \E cfg \in { c \in ApiConfigs : ~c.queueUrl } : NoRoute(cfg)

NextList ==
  \/ ApiNext(Trio)
  \/ \E r \in ListInputs(Limits, Cursors(Trio)) :
       List(r.limit, r.cursor, r.cfg, r.fault)
  \/ Tick

SpecList == Init /\ [][NextList]_vars

\* Every route of the API, the preflight and an unknown route, under every
\* fault of the configuration source, the store and the queue; GET /tasks
\* with and without a limit and with a text that is no cursor.
ApiListInputs == ListInputs({NoParam, [n |-> 1]}, {NoParam, NotACursor})

NextApi ==
  \/ ApiNext(Trio)
  \/ \E r \in ApiListInputs : List(r.limit, r.cursor, r.cfg, r.fault)
  \/ OtherNext
  \/ Tick

SpecApi == Init /\ [][NextApi]_vars

\* Two worker invocations that can hold the same work item at once (the
\* queue delivers at least once), with the store and the generation backend
\* answering every call with success; the notification may still fail, and
\* the clock moves.
GenSuccesses == { r \in GenResponses : callOpenAIWithPrompt(r).ok }

\* the API creating tasks with the queue configured, no fault
ApiNextOk(ids) ==
  \E r \in { r \in CreateInputs(ids) :
                /\ CfgOk(r.cfg) /\ r.cfg.queueUrl /\ r.fault = "none"
                /\ Trim(TopicOf(r.body)) # EmptyStr } :
     Create(r.id, r.body, r.cfg, r.fault)

\* an invocation takes one message
WorkerNextOk(w) ==
  \/ \E batch \in BatchesUpTo(1) :
       \E cfg \in { c \in WorkerConfigs : c.loaded } : WorkerStart(w, batch, cfg)
  \/ WorkerBegin(w, FALSE)
  \/ \E data \in GenSuccesses : WorkerGenerate(w, data)
  \/ WorkerWriteDone(w, FALSE)
  \/ \E snsFault \in BOOLEAN : WorkerNotify(w, snsFault)
  \/ WorkerCatch(w, FALSE)

NextDuo ==
  \/ ApiNextOk(Ids)
  \/ \E w \in Workers : WorkerNextOk(w)
  \/ Tick

SpecDuo == Init /\ [][NextDuo]_vars

\* One task and one worker with the queue redelivering: a message stays in
\* the queue until a report leaves it unnamed, and the event source keeps
\* invoking the handler while the queue holds a message.  The store and the
\* generation backend may fail, but not for ever: a write or a generation
\* call that is attempted again and again succeeds at some attempt.  The
\* notification service is under no such condition.
WorkerNextLive(w) ==
  \/ \E batch \in BatchesUpTo(1) :
       \E cfg \in { c \in WorkerConfigs : c.loaded } : WorkerStart(w, batch, cfg)
  \/ \E ddbFault \in BOOLEAN : WorkerBegin(w, ddbFault)
  \/ \E data \in GenResponses : WorkerGenerate(w, data)
  \/ \E ddbFault \in BOOLEAN : WorkerWriteDone(w, ddbFault)
  \/ \E snsFault \in BOOLEAN : WorkerNotify(w, snsFault)
  \/ \E ddbFault \in BOOLEAN : WorkerCatch(w, ddbFault)

NextLive ==
  \/ ApiNextOk(Solo)
  \/ WorkerNextLive("w1")

Redelivers(w) == WF_vars(WorkerNextLive(w))

EventuallySucceed(w) ==
  /\ SF_vars(WorkerBegin(w, FALSE))
  /\ SF_vars(\E data \in GenSuccesses : WorkerGenerate(w, data))
  /\ SF_vars(WorkerWriteDone(w, FALSE))
  /\ SF_vars(WorkerCatch(w, FALSE))

SpecLive ==
  Init /\ [][NextLive]_vars /\ Redelivers("w1") /\ EventuallySucceed("w1")

\* what the parameter store answers to the commands of one loadConfig call:
\* one page, two pages, a page short of the keys the worker requires, a
\* command that is rejected at the first or at the second page; the values
\* are those of one version of the parameters
Versions == {1, 2}

Rejected == [rejected |-> TRUE]

Page(keys, v, more) == [Parameters |-> [k \in keys |-> v], NextToken |-> more]

TableKeys == {"dynamo-db-table-name", "sqs-queue-url"}

OpenAIKeys == {"openai-api-key", "openai-prompt-id"}

SsmAnswers ==
  { <<Rejected>> } \cup
  UNION { { << Page(TableKeys \cup OpenAIKeys, v, FALSE) >>,
            << Page(TableKeys, v, TRUE), Page(OpenAIKeys, v, FALSE) >>,
            << Page(TableKeys, v, TRUE), Rejected >>,
            << Page(TableKeys, v, FALSE) >> } : v \in Versions }

\* the clock of the config scenario runs past the TTL
MaxConfigTime == (CONFIG_TTL_MS \div TickMs) + MaxTime + 1

ConfigTick ==
  /\ now < MaxConfigTime
  /\ now' = now + 1
  /\ UNCHANGED <<store, issued, live, queue, wk, cache, loaded>>
  /\ resp' = NoResp
  /\ report' = NoReport

\* The two runtimes calling loadConfig as time passes, against a parameter
\* store that changes and fails.
NextConfig ==
  \/ \E r \in Runtimes, answers \in SsmAnswers : CallLoadConfig(r, answers)
  \/ ConfigTick

SpecConfig == Init /\ [][NextConfig]_vars

----------------------------------------------------------------------------
(* The API handler with identity extraction (the variant of the handler that
   reads the Authorization header): parseJWT, isTokenExpired,
   getAuthenticatedUser, and the routes that add X-User-ID to a success *)

\* An Authorization header is absent, or is a text: a scheme word followed
\* by white space (or no scheme at all) and then segments separated by dots.
\* A segment is base64url text that decodes to JSON or does not.
NoHeader == [absent |-> TRUE]

Header(scheme, parts) == [scheme |-> scheme, parts |-> parts]

Segment(value) == [json |-> TRUE, value |-> value]
NoJsonSegment == [json |-> FALSE]
JsonNull == [null |-> TRUE]

\* a user pool id is "<region>_<name>": the parts around the underscore
NotSet == <<>>
UserPool == <<"eu-west-1", "Pool">>
OtherPool == <<"us-east-1", "Other">>
ClientId == <<"client-1">>
OtherClientId == <<"client-2">>

\* `https://cognito-idp.${userPoolId.split('_')[0]}.amazonaws.com/${userPoolId}`
Issuer(userPoolId) ==
  [host |-> <<"cognito-idp", userPoolId[1], "amazonaws.com">>,
   path |-> userPoolId]

null == [user |-> "null"]

\* authHeader.replace(/^Bearer\s+/i, ""): what is left is the token; a
\* scheme the pattern does not match stays in front of the first segment
IsBearer(scheme) == scheme \in {"Bearer", "bearer", "BEARER"}

StripBearer(h) ==
  IF IsBearer(h.scheme) THEN [lead |-> "", parts |-> h.parts]
  ELSE [lead |-> h.scheme, parts |-> h.parts]

EmptyToken(token) == token.lead = "" /\ token.parts = <<>>

\* token.split('.').length
PartsOf(token) == IF token.parts = <<>> THEN 1 ELSE Len(token.parts)

\* parseJWT: [ok, payload], or [ok, message] when it throws
parseJWT(token) ==
  IF PartsOf(token) # 3
    THEN [ok |-> FALSE, message |-> "Failed to parse JWT: Invalid JWT format"]
  ELSE IF ~token.parts[2].json
    THEN [ok |-> FALSE, message |-> "Failed to parse JWT: Unexpected token"]
  ELSE [ok |-> TRUE, payload |-> token.parts[2].value]

\* Math.floor(Date.now() / 1000)
Seconds(t) == DateNow(t) \div 1000

\* isTokenExpired: !payload.exp is true of a missing exp and of exp 0
isTokenExpired(payload, t) ==
  IF ~Has(payload, "exp") \/ payload.exp = 0 THEN TRUE
  ELSE payload.exp < Seconds(t)

Claim(payload, name) == IF Has(payload, name) THEN payload[name] ELSE <<>>

\* the body of the try block of getAuthenticatedUser: [threw, user], or
\* [threw, message]
VerifyToken(token, userPoolId, clientId, t) ==
  LET parsed == parseJWT(token) IN
  IF ~parsed.ok THEN [threw |-> TRUE, message |-> parsed.message]
  ELSE IF Has(parsed.payload, "null")
    THEN [threw |-> TRUE, message |-> "Cannot read properties of null"]
  ELSE LET payload == parsed.payload IN
    IF isTokenExpired(payload, t) THEN [threw |-> FALSE, user |-> null]
    ELSE IF Claim(payload, "iss") # Issuer(userPoolId)
      THEN [threw |-> FALSE, user |-> null]
    ELSE IF Claim(payload, "aud") # clientId
      THEN [threw |-> FALSE, user |-> null]
    ELSE IF Claim(payload, "token_use") # <<"id">>
      THEN [threw |-> FALSE, user |-> null]
    ELSE [threw |-> FALSE,
          user |-> [id |-> Claim(payload, "sub"), payload |-> payload]]

\* getAuthenticatedUser: [threw, user] with user an identity or null; the
\* catch turns whatever the try block throws into null
getAuthenticatedUserNoCatch(headers, config, t) ==
  IF config.userPoolId = NotSet \/ config.clientId = NotSet
    THEN [threw |-> FALSE, user |-> null]
  ELSE IF Has(headers, "absent") THEN [threw |-> FALSE, user |-> null]
  ELSE IF EmptyToken(StripBearer(headers)) THEN [threw |-> FALSE, user |-> null]
  ELSE VerifyToken(StripBearer(headers), config.userPoolId, config.clientId, t)

getAuthenticatedUser(headers, config, t) ==
  IF config.userPoolId = NotSet \/ config.clientId = NotSet
    THEN [threw |-> FALSE, user |-> null]
  ELSE IF Has(headers, "absent") THEN [threw |-> FALSE, user |-> null]
  ELSE IF EmptyToken(StripBearer(headers)) THEN [threw |-> FALSE, user |-> null]
  ELSE LET out == VerifyToken(StripBearer(headers), config.userPoolId,
                              config.clientId, t)
       IN IF out.threw THEN [threw |-> FALSE, user |-> null] ELSE out

\* user ? { "X-User-ID": user.id } : {}
UserHeader(user) ==
  IF user = null THEN <<>> ELSE [h \in {"X-User-ID"} |-> user.id]

\* res(statusCode, data, additionalHeaders = {})
resWith(op, statusCode, data, additionalHeaders) ==
  [event |-> op, statusCode |-> statusCode, headers |-> cors,
   additionalHeaders |-> additionalHeaders, body |-> data]

AuthError(op, msg) ==
  resWith(op, 500, [message |-> "Server error", error |-> msg], <<>>)

AuthNoTable(op) ==
  resWith(op, 500, [message |-> "dynamo-db-table-name not set"], <<>>)

\* what the handler answers to GET /tasks/{id}
AuthGetResponse(id, headers, config, fault) ==
  LET op == [httpMethod |-> "GET", resource |-> "/tasks/{id}", id |-> id,
             headers |-> headers]
      auth == getAuthenticatedUser(headers, config, now)
  IN
  IF ~config.loaded THEN AuthError(op, "ssm")
  ELSE IF auth.threw THEN AuthError(op, auth.message)
  ELSE IF ~config.tableName THEN AuthNoTable(op)
  ELSE IF fault = "dynamodb" THEN AuthError(op, "dynamodb")
  ELSE IF id \notin DOMAIN store
    THEN resWith(op, 404, [message |-> "Not Found"], <<>>)
  ELSE resWith(op, 200, store[id], UserHeader(auth.user))

\* what the handler answers to DELETE /tasks/{id}
AuthDeleteResponse(id, headers, config, fault) ==
  LET op == [httpMethod |-> "DELETE", resource |-> "/tasks/{id}", id |-> id,
             headers |-> headers]
      auth == getAuthenticatedUser(headers, config, now)
  IN
  IF ~config.loaded THEN AuthError(op, "ssm")
  ELSE IF auth.threw THEN AuthError(op, auth.message)
  ELSE IF ~config.tableName THEN AuthNoTable(op)
  ELSE IF fault = "dynamodb" THEN AuthError(op, "dynamodb")
  ELSE resWith(op, 204, "", UserHeader(auth.user))

\* what the handler answers to POST /tasks when randomUUID() gives id
AuthCreateResponse(id, body, headers, config, fault) ==
  LET op == [httpMethod |-> "POST", resource |-> "/tasks", body |-> body,
             headers |-> headers]
      auth == getAuthenticatedUser(headers, config, now)
      topic == Trim(TopicOf(body))
  IN
  IF ~config.loaded THEN AuthError(op, "ssm")
  ELSE IF auth.threw THEN AuthError(op, auth.message)
  ELSE IF ~config.tableName THEN AuthNoTable(op)
  ELSE IF body = NotJson
    THEN resWith(op, 400, [message |-> "Invalid JSON"], <<>>)
  ELSE IF topic = EmptyStr
    THEN resWith(op, 422, [message |-> "Field 'topic' is required"], <<>>)
  ELSE IF fault = "dynamodb" THEN AuthError(op, "dynamodb")
  ELSE IF ConditionFails(store, id)
    THEN AuthError(op, "The conditional request failed")
  ELSE IF config.queueUrl /\ fault = "sqs" THEN AuthError(op, "sqs")
  ELSE resWith(op, 201, [id |-> id, topic |-> topic, status |-> "QUEUED",
                         createdAt |-> now], UserHeader(auth.user))

\* the request gets as far as the PutCommand
ReachesPut(body, headers, config) ==
  /\ config.loaded
  /\ ~getAuthenticatedUser(headers, config, now).threw
  /\ config.tableName
  /\ body # NotJson
  /\ Trim(TopicOf(body)) # EmptyStr

\* GET /tasks/{id}
AuthGet(id, headers, config, fault) ==
  /\ UNCHANGED <<store, issued, live, queue, wk, now, cache, loaded>>
  /\ report' = NoReport
  /\ resp' = AuthGetResponse(id, headers, config, fault)

\* DELETE /tasks/{id}
AuthDelete(id, headers, config, fault) ==
  /\ UNCHANGED <<issued, queue, wk, now, cache, loaded>>
  /\ report' = NoReport
  /\ resp' = AuthDeleteResponse(id, headers, config, fault)
  /\ IF resp'.statusCode = 204
       THEN store' = DeleteItem(store, id) /\ live' = live \ {id}
       ELSE UNCHANGED <<store, live>>

\* POST /tasks
AuthCreate(id, body, headers, config, fault) ==
  LET topic == Trim(TopicOf(body))
      item  == [id |-> id, pk |-> "TASK", topic |-> topic, status |-> "QUEUED",
                createdAt |-> now, updatedAt |-> now,
                researchMd |-> EmptyStr, error |-> NULL]
      sqsPayload == [id |-> id, topic |-> topic, requestedAt |-> now,
                     taskType |-> "RESEARCH_SUMMARY_V1"]
      put == /\ ReachesPut(body, headers, config)
             /\ fault # "dynamodb"
             /\ ~ConditionFails(store, id)
  IN
  /\ ReachesPut(body, headers, config) => randomUUID(id)
  /\ UNCHANGED <<wk, now, cache, loaded>>
  /\ report' = NoReport
  /\ resp' = AuthCreateResponse(id, body, headers, config, fault)
  /\ IF put
       THEN /\ store' = PutItem(store, item)
            /\ issued' = issued \cup {id}
            /\ live' = live \cup {id}
            /\ IF config.queueUrl /\ fault # "sqs"
                 THEN /\ Cardinality(queue) < MaxQueue
                      /\ queue' = queue \cup {Message(sqsPayload)}
                 ELSE queue' = queue
       ELSE UNCHANGED <<store, issued, live, queue>>

\* Tokens: the claims of an acceptable ID token that expires at second exp,
\* and the same with one claim changed or exp left out
IdClaims(exp) ==
  [exp |-> exp, iss |-> Issuer(UserPool), aud |-> ClientId,
   token_use |-> <<"id">>, sub |-> <<"user-1">>]

NoExpClaims ==
  [iss |-> Issuer(UserPool), aud |-> ClientId, token_use |-> <<"id">>,
   sub |-> <<"user-1">>]

\* the clock of the identity scenario reaches the second second
MaxAuthTime == (2000 \div TickMs) + MaxTime

ExpSeconds == 0 .. Seconds(MaxAuthTime)

TokenClaims ==
  { IdClaims(e) : e \in ExpSeconds } \cup
  { NoExpClaims,
    [IdClaims(Seconds(MaxAuthTime)) EXCEPT !.iss = Issuer(OtherPool)],
    [IdClaims(Seconds(MaxAuthTime)) EXCEPT !.aud = OtherClientId],
    [IdClaims(Seconds(MaxAuthTime)) EXCEPT !.token_use = <<"access">>] }

Jwt(claims) == << Segment("header"), Segment(claims), Segment("signature") >>

\* no header; a bearer header with no token, two segments, a payload that
\* is no JSON, a payload null; every token under the bearer scheme in two
\* spellings, under another scheme and with no scheme
AuthHeaders ==
  { NoHeader,
    Header("Bearer", <<>>),
    Header("Basic", <<>>),
    Header("Bearer", << Segment("header"), Segment(IdClaims(1)) >>),
    Header("Bearer", << Segment("header"), NoJsonSegment, Segment("s") >>),
    Header("Bearer", Jwt(JsonNull)) } \cup
  { Header(scheme, Jwt(c)) :
      scheme \in {"Bearer", "bearer", "Basic", ""}, c \in TokenClaims }

\* what the parameters give the handler: as ApiConfigs, with the Cognito
\* settings both present, both absent, or one of them
AuthConfigs ==
  { [loaded |-> c.loaded, tableName |-> c.tableName, queueUrl |-> FALSE,
     userPoolId |-> k[1], clientId |-> k[2]] :
      c \in { c \in ApiConfigs : ~c.queueUrl },
      k \in { <<UserPool, ClientId>>, <<NotSet, NotSet>>,
              <<UserPool, NotSet>> } }

AuthFaults == {"none", "dynamodb"}

\* requests that differ in something the handler reads
AuthInputs(ids, bodies) ==
  { r \in [id : ids, body : bodies, headers : AuthHeaders,
           cfg : AuthConfigs, fault : AuthFaults] :
      /\ ~CfgOk(r.cfg) =>
           /\ r.id = (CHOOSE i \in ids : TRUE)
           /\ r.fault = "none"
           /\ r.headers \in {NoHeader, Header("Bearer", Jwt(JsonNull))}
      /\ r.fault # "none" =>
           r.headers \in {NoHeader, Header("Bearer", Jwt(JsonNull))}
      /\ r.cfg.clientId = NotSet =>
           r.headers \in {NoHeader,
                          Header("Bearer", Jwt(IdClaims(Seconds(MaxAuthTime))))} }

AuthTick ==
  /\ now < MaxAuthTime
  /\ now' = now + 1
  /\ UNCHANGED <<store, issued, live, queue, wk, cache, loaded>>
  /\ resp' = NoResp
  /\ report' = NoReport

\* One task id, requests with every kind of Authorization header, as the
\* clock passes the tokens' expiry.
NextAuth ==
  \/ \E r \in AuthInputs(Solo, {[topic |-> <<"t">>]}) :
       AuthCreate(r.id, r.body, r.headers, r.cfg, r.fault)
  \/ \E r \in AuthInputs(Solo, {EmptyObj}) :
       AuthGet(r.id, r.headers, r.cfg, r.fault)
  \/ \E r \in AuthInputs(Solo, {EmptyObj}) :
       AuthDelete(r.id, r.headers, r.cfg, r.fault)
  \/ AuthTick

SpecAuth == Init /\ [][NextAuth]_vars

----------------------------------------------------------------------------
(* Properties *)

Status(st, i) == st[i].status

\* the store after a step of worker w: every worker step changes wk[w] or
\* returns a report
WorkerStep(w) == wk'[w] # wk[w] \/ report' # NoReport

\* the failure list of worker w after its step
FailuresAfter(w) ==
  IF report' # NoReport THEN report'.batchItemFailures ELSE wk'[w].failures

Names(failures, messageId) ==
  \E f \in DOMAIN failures : failures[f].itemIdentifier = messageId

NonEmptyMd(item) == Has(item, "researchMd") /\ item.researchMd # EmptyStr

ErrorPresent(item) == Has(item, "error") /\ item.error # NULL

\* C1: DONE is terminal -- once a task's stored status is DONE no later
\* worker step changes it, whatever is redelivered and whichever publish
\* fails.
C1_DoneIsTerminal ==
  [][\A i \in DOMAIN store \cap DOMAIN store' :
       Status(store, i) = "DONE" => Status(store', i) = "DONE"]_vars

C3_ResearchMdIffDone ==
  \A i \in DOMAIN store : NonEmptyMd(store[i]) <=> Status(store, i) = "DONE"

\* C4: a task's error field is present if and only if its status is ERROR.
C4_ErrorIffError ==
  \A i \in DOMAIN store : ErrorPresent(store[i]) <=> Status(store, i) = "ERROR"

\* C5: Get(id) answers 404 for an id never created or deleted, and for an
\* existing id answers with the full record, researchMd included.
C5_GetNotFoundOrFull ==
  ( /\ resp.event.httpMethod = "GET"
    /\ resp.event.resource = "/tasks/{id}"
    /\ resp.statusCode # 500 ) =>
    IF resp.event.id \in live
      THEN resp.statusCode = 200 /\ Has(resp.body, "researchMd")
      ELSE resp.statusCode = 404

\* C6: every record of the store was brought into existence by a Create and
\* appears exactly once in the newest-first listing.
C6_CreatedAndListedOnce ==
  \A i \in DOMAIN store :
    /\ i \in live
    /\ Cardinality({k \in DOMAIN QueryAll(store) : QueryAll(store)[k] = i}) = 1

\* C7: the failure report names an item when and only when parse, the
\* PROCESSING write, generation or the DONE write failed for it; a failed
\* notification publish leaves the item unnamed.
C7_NamedOnlyForFourCauses ==
  \A w \in Workers :
    wk[w].pc # "idle" =>
      ( Names(wk[w].failures, Rec(w).messageId) <=>
          ( wk[w].pc = "catch" /\
            wk[w].err \in { "Unexpected token",
                            "Message must contain id and topic", "dynamodb",
                            "fetch failed", "OpenAI 500",
                            "Empty OpenAI response" } ) )

\* C8: for a work item that is not parseable or lacks id or topic the worker
\* names the item and performs no store write at all.
C8_MalformedNoWrite ==
  [][\A w \in Workers :
       ( /\ wk[w].pc \in {"begin", "catch"}
         /\ WorkerStep(w)
         /\ LET msg == Rec(w).body IN
              Has(msg, "raw") \/ ~Has(msg, "id") \/ ~Has(msg, "topic") )
       => ( store' = store /\ Names(FailuresAfter(w), Rec(w).messageId) )]_vars

\* C8 as amended: for a work item that is not parseable or lacks id the
\* worker names the item and performs no store write; for an item that has
\* an id but no topic it names the item and its only store write is the
\* compensating ERROR write under that id (no PROCESSING write, no
\* generation call, no DONE write).
C8_MalformedOnlyErrorWrite ==
  [][\A w \in Workers :
       ( /\ wk[w].pc \in {"begin", "catch"}
         /\ WorkerStep(w)
         /\ LET msg == Rec(w).body IN
              Has(msg, "raw") \/ ~Has(msg, "id") \/ ~Has(msg, "topic") )
       => LET msg == Rec(w).body IN
          /\ Names(FailuresAfter(w), Rec(w).messageId)
          /\ wk'[w].pc \in {"catch", "begin", "idle"}
          /\ wk[w].pc = "begin" => store' = store /\ wk'[w].pc = "catch"
          /\ (Has(msg, "raw") \/ ~Has(msg, "id")) => store' = store
          /\ store' # store =>
               /\ DOMAIN store' = DOMAIN store \cup {msg.id}
               /\ \A i \in DOMAIN store \ {msg.id} : store'[i] = store[i]
               /\ Status(store', msg.id) = "ERROR"
               /\ ~Has(store'[msg.id], "researchMd")
                    \/ ( msg.id \in DOMAIN store
                         /\ Has(store[msg.id], "researchMd")
                         /\ store'[msg.id].researchMd
                              = store[msg.id].researchMd )]_vars

\* C8 witness: a batch returned whose report names an item with an id and
\* no topic, and the store holds that id in status ERROR.
C8_Witness ==
  /\ report # NoReport
  /\ \E k \in DOMAIN report.batch :
       /\ Has(report.batch[k].body, "id")
       /\ ~Has(report.batch[k].body, "topic")
       /\ Names(report.batchItemFailures, report.batch[k].messageId)
       /\ report.batch[k].body.id \in DOMAIN store
       /\ Status(store, report.batch[k].body.id) = "ERROR"

\* C9: Create answers 201 whenever its store write succeeded, even if the
\* publish to the queue fails.
C9_CreatedDespitePublishFailure ==
  [][(resp'.event.httpMethod = "POST" /\ live' # live) =>
       resp'.statusCode = 201]_vars

\* C10: Create never overwrites -- no Create changes a record the store
\* holds, a Create that answers 201 generated an id the store did not hold,
\* and a Create that did not write publishes no work item and fails unless
\* the item it wrote is new.
C10_CreateNeverOverwrites ==
  [][resp'.event.httpMethod = "POST" =>
       /\ \A i \in DOMAIN store : i \in DOMAIN store' /\ store'[i] = store[i]
       /\ resp'.statusCode = 201 =>
            /\ resp'.body.id \notin DOMAIN store
            /\ resp'.body.id \in DOMAIN store'
       /\ store' = store => queue' = queue /\ resp'.statusCode # 201
       /\ \A m \in queue' \ queue : m.body.id \notin DOMAIN store]_vars

\* C10 witness: a Create generated an id the store already held and failed
\* on the conditional write.
C10_Witness ==
  /\ resp.event.httpMethod = "POST"
  /\ resp.statusCode = 500
  /\ Has(resp.body, "error")
  /\ resp.body.error = "The conditional request failed"
  /\ store # <<>>

----------------------------------------------------------------------------
(* Properties of the API handler, checked under SpecList and Spec *)

Blank(s) == \A k \in DOMAIN s : s[k] = SP

IsCreate(r) == r.event.httpMethod = "POST"

IsList(r) == r.event.httpMethod = "GET" /\ r.event.resource = "/tasks"

IsGet(r) == r.event.httpMethod = "GET" /\ r.event.resource = "/tasks/{id}"

IsDelete(r) == r.event.httpMethod = "DELETE"

\* C11: for every topic that is non-empty after trimming, a successful
\* Create stores a new task with status QUEUED, researchMd "", error absent,
\* createdAt equal to updatedAt and the trimmed topic, and returns exactly
\* {id, topic, status, createdAt} of the stored task.
C11_CreateStoresQueuedTask ==
  [][(IsCreate(resp') /\ resp'.statusCode = 201) =>
       LET id   == resp'.body.id
           sent == resp'.event.body.topic
       IN  /\ id \notin DOMAIN store
           /\ id \in DOMAIN store'
           /\ LET item == store'[id] IN
                /\ item.status = "QUEUED"
                /\ item.researchMd = EmptyStr
                /\ ~ErrorPresent(item)
                /\ item.createdAt = item.updatedAt
                /\ item.createdAt = now
                /\ item.topic # EmptyStr
                /\ Head(item.topic) # SP
                /\ item.topic[Len(item.topic)] # SP
                /\ \E p, q \in DOMAIN sent :
                     /\ item.topic = SubSeq(sent, p, q)
                     /\ Blank(SubSeq(sent, 1, p - 1))
                     /\ Blank(SubSeq(sent, q + 1, Len(sent)))
                /\ resp'.body = [id |-> item.id, topic |-> item.topic,
                                 status |-> item.status,
                                 createdAt |-> item.createdAt]]_vars

\* C11 witness: a Create of a padded topic answered 201 with the trimmed
\* topic, after the clock had moved.
C11_Witness ==
  /\ IsCreate(resp)
  /\ resp.statusCode = 201
  /\ resp.event.body.topic = <<SP, "t", SP>>
  /\ resp.body.topic = <<"t">>
  /\ resp.body.createdAt = 1
  /\ store[resp.body.id].updatedAt = 1

\* C12: a Create whose topic is missing, empty or whitespace-only answers
\* 422 and leaves the store and the queue as they were; a Get for an absent
\* id leaves them as they were too.
C12_InvalidCreateNoEffect ==
  [][/\ ( /\ IsCreate(resp')
          /\ resp'.event.body # NotJson
          /\ Blank(TopicOf(resp'.event.body)) )
        => ( resp'.statusCode = 422 /\ store' = store /\ queue' = queue )
     /\ ( IsGet(resp') /\ resp'.event.id \notin DOMAIN store )
        => ( /\ store' = store /\ queue' = queue
             /\ resp'.statusCode \in {404, 500} )]_vars

\* C12 witness: a Create with a whitespace-only topic was answered 422 while
\* the store held a task.
C12_Witness ==
  /\ IsCreate(resp)
  /\ resp.statusCode = 422
  /\ resp.event.body = [topic |-> <<SP>>]
  /\ store # <<>>

\* the pages that follow body when each returned cursor is fed into the next
\* List call with the same limit, the store staying as it is
RECURSIVE FollowCursor(_, _, _, _)
FollowCursor(st, limit, body, n) ==
  IF body.cursor = NoParam THEN [items |-> body.items, ended |-> TRUE]
  ELSE IF n = 0 THEN [items |-> body.items, ended |-> FALSE]
  ELSE LET q    == ListQuery(limit, body.cursor)
           next == FollowCursor(st, limit,
                     ListResult(QueryCommand(st, q.Limit, q.ExclusiveStartKey)),
                     n - 1)
       IN  [items |-> body.items \o next.items, ended |-> next.ended]

\* the walk that a List response without a cursor in its request starts
WalkFrom(r) ==
  FollowCursor(store, r.event.limit, r.body, Cardinality(DOMAIN store) + 1)

StartsWalk(r) == IsList(r) /\ r.statusCode = 200 /\ r.event.cursor = NoParam

\* C13: with the store unchanged, starting List without a cursor and feeding
\* each returned cursor into the next call visits every task exactly once
\* and ends with a page whose cursor is null.
C13_WalkVisitsEachOnce ==
  StartsWalk(resp) =>
    LET w == WalkFrom(resp) IN
    /\ w.ended
    /\ Len(w.items) = Cardinality(live)
    /\ { w.items[k].id : k \in DOMAIN w.items } = live

\* C13 witness: a List with limit 1 returned the first of three tasks and a
\* cursor.
C13_Witness ==
  /\ StartsWalk(resp)
  /\ resp.event.limit = [n |-> 1]
  /\ Len(resp.body.items) = 1
  /\ resp.body.cursor # NoParam
  /\ Cardinality(live) = 3

Listed(r) == IsList(r) /\ r.statusCode = 200

\* C14: List returns items ordered strictly by createdAt descending, within
\* each page and across the pages obtained by following the cursor: each
\* item's createdAt is later than that of the item after it.
C14_StrictlyDescending ==
  Listed(resp) =>
    LET items == WalkFrom(resp).items IN
    \A p, q \in DOMAIN items :
      p < q => items[p].createdAt > items[q].createdAt

\* C14 as amended: List returns items newest first, within each page and
\* across the pages obtained by following the cursor: no item comes before
\* an item of later createdAt; items of equal createdAt come in an order
\* the store fixes.
C14_NewestFirst ==
  Listed(resp) =>
    LET items == WalkFrom(resp).items IN
    \A p, q \in DOMAIN items :
      p < q => items[p].createdAt >= items[q].createdAt

\* C14 witness: a List page of one item starts a walk over three pages of
\* tasks created at two different instants.
C14_Witness ==
  /\ Listed(resp)
  /\ Len(resp.body.items) = 1
  /\ LET items == WalkFrom(resp).items IN
       /\ Len(items) = 3
       /\ items[1].createdAt > items[3].createdAt

\* C15: List passes a limit of 25 to the store when the limit parameter is
\* absent, never passes a limit greater than 100 whatever is requested, and
\* a request with limit=N returns at most N items.
C15_LimitDefaultAndCap ==
  (IsList(resp) /\ Has(resp, "QueryCommand")) =>
    LET Limit == resp.QueryCommand.Limit IN
    /\ resp.event.limit = NoParam => Limit = [n |-> DefaultLimit]
    /\ Has(Limit, "n") => Limit.n <= MaxLimit
    /\ Has(resp.event.limit, "n") =>
         Has(Limit, "n") /\ Limit.n <= resp.event.limit.n
    /\ (resp.statusCode = 200 /\ Has(resp.event.limit, "n")) =>
         Len(resp.body.items) <= resp.event.limit.n
    /\ resp.statusCode = 200 => Len(resp.body.items) <= Limit.n

\* C15 witness: a List that asked for more than 100 items was served with a
\* store limit of 100.
C15_Witness ==
  /\ Listed(resp)
  /\ resp.event.limit = [n |-> MaxLimit + 1]
  /\ resp.QueryCommand.Limit = [n |-> MaxLimit]
  /\ Len(resp.body.items) = 3

\* C16: every item returned by List carries only the fields id, topic,
\* status, createdAt and updatedAt; researchMd and error never appear,
\* whatever the task's status.
C16_ListProjection ==
  Listed(resp) =>
    \A k \in DOMAIN resp.body.items :
      /\ DOMAIN resp.body.items[k] \subseteq
            {"id", "topic", "status", "createdAt", "updatedAt"}
      /\ ~Has(resp.body.items[k], "researchMd")
      /\ ~Has(resp.body.items[k], "error")

\* C16 witness: List returned a task that is DONE and holds its generated
\* text in the store.
C16_Witness ==
  /\ Listed(resp)
  /\ \E k \in DOMAIN resp.body.items :
       /\ resp.body.items[k].status = "DONE"
       /\ NonEmptyMd(store[resp.body.items[k].id])

\* C17: Delete is idempotent -- Delete(id) answers 204 whether or not the
\* store holds id, removes that record and no other, and on an absent id
\* leaves the store as it was, so a second Delete(id) changes nothing.
C17_DeleteIdempotent ==
  [][(IsDelete(resp') /\ resp'.statusCode # 500) =>
       LET id == resp'.event.id IN
       /\ resp'.statusCode = 204
       /\ resp'.body = ""
       /\ DOMAIN store' = DOMAIN store \ {id}
       /\ \A i \in DOMAIN store' : store'[i] = store[i]
       /\ id \notin DOMAIN store => store' = store]_vars

\* C17 witness: a Delete of an id that was never created answered 204 while
\* the store held other tasks.
C17_Witness ==
  /\ IsDelete(resp)
  /\ resp.statusCode = 204
  /\ resp.event.id \notin issued
  /\ store # <<>>

----------------------------------------------------------------------------
(* Properties of the worker handler, checked under Spec *)

GenErrors == {"fetch failed", "OpenAI 500", "Empty OpenAI response"}

\* what the spec counts as a failure of an item: parse or the id/topic
\* check, the PROCESSING write, generation, the DONE write
ItemErrors ==
  {"Unexpected token", "Message must contain id and topic", "dynamodb"}
    \cup GenErrors

\* worker w has made the PROCESSING write, the generation call and the DONE
\* write for its current item, all with success, and now takes a step
PastDoneWrite(w) ==
  \/ wk[w].pc = "done" /\ store' # store
  \/ wk[w].pc = "notify"
  \/ wk[w].pc = "catch" /\ wk[w].err = "sns"

\* C18: worker happy path -- for a work item {id, topic} of an existing
\* task, once the PROCESSING write, the generation call and the DONE write
\* have succeeded, the task stays DONE with the non-empty generated text and
\* no error, and the failure report does not name the item.
C18_HappyPath ==
  [][\A w \in Workers :
       ( /\ wk[w].pc \in {"done", "notify", "catch"}
         /\ WorkerStep(w)
         /\ PastDoneWrite(w)
         /\ Rec(w).body.id \in live )
       => LET id == Rec(w).body.id IN
          /\ id \in DOMAIN store'
          /\ Status(store', id) = "DONE"
          /\ NonEmptyMd(store'[id])
          /\ ~ErrorPresent(store'[id])
          /\ ~Names(FailuresAfter(w), Rec(w).messageId)]_vars

\* C19: worker failure path -- when the generation call fails (transport or
\* HTTP error, empty or unrecognized response) the failure report names the
\* item from then on, and when the compensating write succeeds the task is
\* in status ERROR with the non-empty error text.
C19_GenerationFailure ==
  [][\A w \in Workers :
       /\ ( wk[w].pc = "generate" /\ WorkerStep(w) /\ wk'[w].pc = "catch" )
          => ( /\ wk'[w].err \in GenErrors
               /\ store' = store
               /\ Names(wk'[w].failures, Rec(w).messageId) )
       /\ ( wk[w].pc = "catch" /\ wk[w].err \in GenErrors /\ WorkerStep(w) )
          => LET id == Rec(w).body.id IN
             /\ Names(FailuresAfter(w), Rec(w).messageId)
             /\ store' # store =>
                  /\ id \in DOMAIN store'
                  /\ Status(store', id) = "ERROR"
                  /\ ErrorPresent(store'[id])
                  /\ store'[id].error = wk[w].err
                  /\ store'[id].error # ""
       /\ ( wk[w].pc # "idle" /\ WorkerStep(w) )
          => \A f \in DOMAIN wk[w].failures :
               Names(FailuresAfter(w), wk[w].failures[f].itemIdentifier)]_vars

\* C19 witness: a batch returned whose report names the item of a task that
\* is in status ERROR with the error text of a failed generation call.
C19_Witness ==
  /\ report # NoReport
  /\ \E k \in DOMAIN report.batch :
       /\ Has(report.batch[k].body, "topic")
       /\ Has(report.batch[k].body, "id")
       /\ Names(report.batchItemFailures, report.batch[k].messageId)
       /\ report.batch[k].body.id \in DOMAIN store
       /\ Status(store, report.batch[k].body.id) = "ERROR"
       /\ store[report.batch[k].body.id].error \in GenErrors

TimesNamed(failures, messageId) ==
  Cardinality({ f \in DOMAIN failures :
                  failures[f].itemIdentifier = messageId })

\* C20: within one batch every item is processed whether or not other items
\* fail, a failing item writes only to its own task's record, and the
\* failure report names exactly the items whose processing failed (parse or
\* check, PROCESSING write, generation, DONE write), each at most once.
C20_BatchIndependence ==
  [][\A w \in Workers :
       ( wk[w].pc # "idle" /\ WorkerStep(w) ) =>
         LET msg  == Rec(w).body
             left == wk'[w].pc \in {"idle", "begin"} /\ ~(wk'[w] = wk[w])
         IN
         /\ \A i \in DOMAIN store \cup DOMAIN store' :
              (i \notin DOMAIN store \/ i \notin DOMAIN store'
                 \/ store'[i] # store[i])
              => (IsJson(msg) /\ Has(msg, "id") /\ msg.id = i)
         /\ wk'[w].pc = "begin" =>
              /\ wk'[w].batch = wk[w].batch
              /\ wk'[w].i = wk[w].i + 1
         /\ wk'[w].pc = "idle" =>
              /\ wk[w].i = Len(wk[w].batch)
              /\ report'.batch = wk[w].batch
         /\ TimesNamed(FailuresAfter(w), Rec(w).messageId) <= 1
         /\ left =>
              ( Names(FailuresAfter(w), Rec(w).messageId) <=>
                  ( wk[w].pc = "catch" /\ wk[w].err \in ItemErrors ) )]_vars

----------------------------------------------------------------------------
(* Properties of loadConfig, checked under SpecConfig *)

Called == loaded.runtime # "none"

\* the age of the cached copy the call found, in milliseconds
AgeFound == loaded.at * TickMs - loaded.before.cachedAt

FoundCopy == Has(loaded.before, "cachedConfig")

Fetched == loaded.out.sent > 0

\* a call that sent no command returned the memoized copy and left the
\* cache as it was
Memoized ==
  ~Fetched =>
    /\ FoundCopy
    /\ ~loaded.out.threw
    /\ loaded.out.params = loaded.before.cachedConfig
    /\ loaded.out.cache = loaded.before

\* C26: get() fetches on the first call and whenever the cached copy is
\* older than the TTL, and otherwise sends nothing and returns the memoized
\* copy.
C26_FetchIffOlderThanTtl ==
  Called =>
    /\ Fetched <=> (~FoundCopy \/ AgeFound > CONFIG_TTL_MS)
    /\ Memoized

\* C26 as amended: get() fetches on the first call and whenever the cached
\* copy is at least TTL old, and otherwise sends nothing and returns the
\* memoized copy; the cache changes only when a call fetched with success
\* and then holds what that call returned, stamped with the time of the
\* call.
C26_FetchIffTtlReached ==
  [][/\ (loaded' # loaded \/ cache' # cache) =>
          LET call == loaded' IN
          /\ call.runtime \in Runtimes
          /\ call.before = cache[call.runtime]
          /\ call.out.cache = cache'[call.runtime]
          /\ \A r \in Runtimes \ {call.runtime} : cache'[r] = cache[r]
          /\ (call.out.sent > 0) <=>
               ( \/ ~Has(call.before, "cachedConfig")
                 \/ call.at * TickMs - call.before.cachedAt >= CONFIG_TTL_MS )
          /\ call.out.sent = 0 =>
               /\ ~call.out.threw
               /\ call.out.params = call.before.cachedConfig
               /\ cache' = cache
          /\ cache' # cache =>
               /\ call.out.sent > 0
               /\ ~call.out.threw
               /\ cache'[call.runtime] =
                    [cachedConfig |-> call.out.params,
                     cachedAt |-> call.at * TickMs]]_vars

\* C26 witness: a call found a copy that had reached the TTL, fetched, and
\* returned values other than the copy's.
C26_Witness ==
  /\ Called
  /\ FoundCopy
  /\ Fetched
  /\ ~loaded.out.threw
  /\ loaded.out.params # loaded.before.cachedConfig
  /\ cache[loaded.runtime].cachedConfig = loaded.out.params

\* the parameters of all the pages of answers
RECURSIVE AllPages(_, _)
AllPages(answers, k) ==
  IF k = 0 THEN <<>>
  ELSE LET before == AllPages(answers, k - 1) IN
       [key \in DOMAIN before \cup DOMAIN answers[k].Parameters |->
          IF key \in DOMAIN answers[k].Parameters
            THEN answers[k].Parameters[key] ELSE before[key]]

\* C27: if a page fetch fails, get() propagates the failure and leaves the
\* cache unchanged -- nothing but the drained whole is ever returned or
\* stored, a failed call returns nothing (not the expired copy), and in the
\* worker a result that lacks a required parameter is thrown and not cached.
C27_FailureNotCached ==
  (Called /\ Fetched) =>
    LET out     == loaded.out
        answers == loaded.answers
    IN
    /\ Has(answers[out.sent], "rejected") => out.threw
    /\ out.threw =>
         /\ out.cache = loaded.before
         /\ cache[loaded.runtime] = loaded.before
         /\ ~Has(out, "params")
    /\ ~out.threw =>
         /\ out.sent = Len(answers)
         /\ ~answers[out.sent].NextToken
         /\ out.params = AllPages(answers, Len(answers))
         /\ out.cache.cachedConfig = out.params
    /\ ( /\ loaded.runtime = "worker"
         /\ ~Has(answers[out.sent], "rejected")
         /\ {"dynamo-db-table-name", "openai-api-key", "openai-prompt-id"}
              \ DOMAIN AllPages(answers, out.sent) # {} )
       => out.threw
    /\ \A r \in Runtimes :
         ( r = "worker" /\ Has(cache[r], "cachedConfig") ) =>
           {"dynamo-db-table-name", "openai-api-key", "openai-prompt-id"}
             \subseteq DOMAIN cache[r].cachedConfig

\* C27 witness: the worker's call found an expired copy, fetched a page
\* that lacks a required parameter, threw, and the cache still holds the
\* expired copy.
C27_Witness ==
  /\ Called
  /\ loaded.runtime = "worker"
  /\ FoundCopy
  /\ Fetched
  /\ loaded.out.threw
  /\ ~Has(loaded.answers[loaded.out.sent], "rejected")
  /\ cache["worker"] = loaded.before

----------------------------------------------------------------------------
(* Properties of the worker's batch report and of the order of its steps,
   checked under Spec *)

\* C21: after a batch returns, every item the failure report does not name
\* has its task (created and not deleted meanwhile) in the store with status
\* DONE, or with a recorded ERROR.
C21_UnnamedAreHandled ==
  report # NoReport =>
    \A k \in DOMAIN report.batch :
      LET msg == report.batch[k].body IN
      ( /\ ~Names(report.batchItemFailures, report.batch[k].messageId)
        /\ IsJson(msg) /\ Has(msg, "id") => msg.id \in live )
      => /\ IsJson(msg) /\ Has(msg, "id") /\ Has(msg, "topic")
         /\ msg.id \in DOMAIN store
         /\ \/ Status(store, msg.id) = "DONE" /\ NonEmptyMd(store[msg.id])
            \/ Status(store, msg.id) = "ERROR" /\ ErrorPresent(store[msg.id])

\* C21 witness: a batch of two returned; its report names one item and not
\* the other, whose task is DONE.
C21_Witness ==
  /\ report # NoReport
  /\ Len(report.batch) = 2
  /\ Len(report.batchItemFailures) = 1
  /\ \E k \in DOMAIN report.batch :
       /\ ~Names(report.batchItemFailures, report.batch[k].messageId)
       /\ report.batch[k].body.id \in live
       /\ Status(store, report.batch[k].body.id) = "DONE"

\* C22: the worker handler always returns a batch report; when the
\* configuration cannot be loaded the report names every item of the batch
\* and the handler makes no store write, generation call or notification.
C22_ConfigFailureNamesAll ==
  [][\A w \in Workers :
       /\ ( wk[w].pc = "idle" /\ report' # NoReport /\ report'.worker = w ) =>
            /\ wk' = wk
            /\ store' = store
            /\ queue' = queue
            /\ Len(report'.batchItemFailures) = Len(report'.batch)
            /\ \A k \in DOMAIN report'.batch :
                 report'.batchItemFailures[k].itemIdentifier
                   = report'.batch[k].messageId
       /\ ( wk[w].pc = "idle" /\ wk'[w] # wk[w] ) =>
            /\ report' = NoReport
            /\ wk'[w].pc = "begin"
            /\ wk'[w].failures = <<>>
            /\ store' = store
       /\ ( wk[w].pc # "idle" /\ wk'[w].pc = "idle" ) =>
            /\ report' # NoReport
            /\ report'.batch = wk[w].batch
            /\ \A f \in DOMAIN report'.batchItemFailures :
                 \E k \in DOMAIN report'.batch :
                   report'.batchItemFailures[f].itemIdentifier
                     = report'.batch[k].messageId]_vars

\* C22 witness: a report names both items of a batch of two, one of them
\* the work item of a task that is still QUEUED, and no invocation runs.
C22_Witness ==
  /\ report # NoReport
  /\ Len(report.batch) = 2
  /\ Len(report.batchItemFailures) = 2
  /\ wk[report.worker] = Idle
  /\ \E k \in DOMAIN report.batch :
       /\ Has(report.batch[k].body, "topic")
       /\ Has(report.batch[k].body, "id")
       /\ report.batch[k].body.id \in live
       /\ Status(store, report.batch[k].body.id) = "QUEUED"

\* C29: for each item the worker's steps are causally ordered -- the
\* generation backend is invoked only after the PROCESSING write of the
\* item succeeded, not at all when that write failed, and the DONE write
\* happens only after generation returned non-empty text, which it stores.
C29_CausalOrder ==
  [][\A w \in Workers :
       wk'[w] # wk[w] =>
         /\ wk[w].pc = "begin" =>
              /\ wk'[w].pc \in {"generate", "catch"}
              /\ wk'[w].pc = "generate" =>
                   /\ Rec(w).body.id \in DOMAIN store'
                   /\ Status(store', Rec(w).body.id) = "PROCESSING"
              /\ wk'[w].pc = "catch" => store' = store
         /\ (wk[w].pc # "idle" /\ wk'[w].pc = "generate") => wk[w].pc = "begin"
         /\ wk[w].pc = "generate" =>
              /\ store' = store
              /\ wk'[w].pc \in {"done", "catch"}
              /\ wk'[w].pc = "done" => wk'[w].markdown # EmptyStr
         /\ (wk[w].pc # "idle" /\ wk'[w].pc = "done") => wk[w].pc = "generate"
         /\ wk[w].pc = "catch" => wk'[w].pc \in {"begin", "idle"}
         /\ \A i \in DOMAIN store' :
              ( Status(store', i) = "DONE"
                /\ (i \notin DOMAIN store \/ store[i] # store'[i]) )
              => /\ wk[w].pc = "done"
                 /\ i = Rec(w).body.id
                 /\ store'[i].researchMd = wk[w].markdown
                 /\ store'[i].researchMd # EmptyStr]_vars

\* C29 witness: the worker has made the PROCESSING write and the generation
\* call and is about to make the DONE write.
C29_Witness ==
  \E w \in Workers :
    /\ wk[w].pc = "done"
    /\ wk[w].markdown = <<"m">>
    /\ Rec(w).body.id \in live
    /\ Status(store, Rec(w).body.id) = "PROCESSING"

\* C30: when an item's processing fails and the compensating ERROR write
\* fails too, the item stays named exactly once in the failure report,
\* processing continues with the next item, and the store keeps the last
\* state written with success.
C30_CompensationFailureOnlyLogged ==
  [][\A w \in Workers :
       ( wk[w].pc = "catch" /\ wk'[w] # wk[w] ) =>
         LET msg == Rec(w).body IN
         /\ TimesNamed(FailuresAfter(w), Rec(w).messageId) = 1
         /\ FailuresAfter(w) = wk[w].failures
         /\ \/ /\ wk'[w].pc = "begin"
               /\ wk'[w].batch = wk[w].batch
               /\ wk'[w].i = wk[w].i + 1
            \/ /\ wk'[w].pc = "idle"
               /\ wk[w].i = Len(wk[w].batch)
               /\ report'.batch = wk[w].batch
         /\ \/ store' = store
            \/ /\ IsJson(msg) /\ Has(msg, "id")
               /\ DOMAIN store' = DOMAIN store \cup {msg.id}
               /\ \A i \in DOMAIN store \ {msg.id} : store'[i] = store[i]
               /\ Status(store', msg.id) = "ERROR"
               /\ store'[msg.id].error = wk[w].err]_vars

\* C30 witness: the worker goes on to the second item of its batch while
\* the first item's task is left in PROCESSING, where its last successful
\* write put it, and the failure list names the first item once.
C30_Witness ==
  \E w \in Workers :
    /\ wk[w].pc = "begin"
    /\ wk[w].i = 2
    /\ Has(wk[w].batch[1].body, "topic")
    /\ Has(wk[w].batch[1].body, "id")
    /\ wk[w].batch[1].body.id \in live
    /\ Status(store, wk[w].batch[1].body.id) = "PROCESSING"
    /\ TimesNamed(wk[w].failures, wk[w].batch[1].messageId) = 1

----------------------------------------------------------------------------
(* Properties of the API handler's responses, checked under SpecApi *)

\* the inputs under which the configuration source, the store or the queue
\* throws
Thrown(r) == ~r.cfg.loaded \/ r.fault # "none"

ThrownCreates == { r \in CreateInputs(Trio) : Thrown(r) }
ThrownKeys == { r \in KeyInputs(Trio) : Thrown(r) }
ThrownLists == { r \in ApiListInputs : Thrown(r) }

IsServerError(r) ==
  /\ r.statusCode = 500
  /\ Has(r.body, "message") /\ r.body.message = "Server error"
  /\ Has(r.body, "error") /\ r.body.error # ""
  /\ r.headers = cors

\* the responses whose body is a JSON object, not an empty text
HasJsonBody(r) ==
  r # NoResp /\ r.statusCode # 204 /\ r.event.httpMethod # "OPTIONS"

\* C28: the API handler never raises -- a fault thrown by the configuration
\* source, the store or the queue becomes a 500 response with the fields
\* message and error, and every response of every route has the CORS
\* headers.
C28_FaultsBecome500 ==
  [][ resp' # NoResp =>
        LET ev     == resp'.event
            method == ev.httpMethod
            byId   == ev.resource = "/tasks/{id}"
        IN
        /\ resp'.headers = cors
        /\ resp'.statusCode \in {200, 201, 204, 400, 404, 422, 500}
        /\ method = "POST" =>
             \A r \in ThrownCreates :
               (r.body = ev.body /\ Create(r.id, r.body, r.cfg, r.fault))
               => IsServerError(resp')
        /\ (method = "GET" /\ byId) =>
             \A r \in ThrownKeys :
               (r.id = ev.id /\ Get(r.id, r.cfg, r.fault))
               => IsServerError(resp')
        /\ (method = "DELETE" /\ HasJsonBody(resp')) =>
             \A r \in ThrownKeys :
               (r.id = ev.id /\ Delete(r.id, r.cfg, r.fault))
               => IsServerError(resp')
        /\ (method = "DELETE" /\ ~HasJsonBody(resp')) =>
             store' = DeleteItem(store, ev.id)
        /\ (method = "GET" /\ ~byId) =>
             \A r \in ThrownLists :
               List(r.limit, r.cursor, r.cfg, r.fault) => IsServerError(resp')
        /\ method = "PUT" =>
             \A cfg \in ApiConfigs :
               (~cfg.loaded /\ NoRoute(cfg)) => IsServerError(resp')
        /\ method = "OPTIONS" => resp'.statusCode = 200 /\ resp'.body = "" ]_vars

\* C28 witness: the queue threw after the task was stored, and the response
\* is a 500 with the fault's message in the error field.
C28_Witness ==
  /\ resp # NoResp
  /\ resp.event.httpMethod = "POST"
  /\ IsServerError(resp)
  /\ resp.body.error = "sqs"

----------------------------------------------------------------------------
(* Properties of identity extraction, checked under SpecAuth *)

\* a response of the handler that extracts an identity
IsAuthResp(r) == r # NoResp /\ Has(r, "additionalHeaders")

\* the response tells the caller's identity
Identified(r) == IsAuthResp(r) /\ DOMAIN r.additionalHeaders # {}

\* the claims of the token the request carried
PayloadOf(r) == r.event.headers.parts[2].value

SameAnswer(a, b) == a.statusCode = b.statusCode /\ a.body = b.body

Matches(a, b) == a.statusCode = b.statusCode /\ a = b

\* C23: identity extraction never blocks a request -- whatever the
\* Authorization header is (absent, malformed, expired, mismatched, valid),
\* the response has the status code and the body it has without the header,
\* and the extractor gives an identity or nothing, never a failure.
C23_ExtractionNeverBlocks ==
  [][ IsAuthResp(resp') =>
        LET ev == resp'.event IN
        /\ DOMAIN resp'.additionalHeaders \subseteq {"X-User-ID"}
        /\ \A cfg \in AuthConfigs, fault \in AuthFaults :
             /\ ( /\ ev.httpMethod = "GET"
                  /\ Matches(resp',
                             AuthGetResponse(ev.id, ev.headers, cfg, fault)) )
                => SameAnswer(resp',
                              AuthGetResponse(ev.id, NoHeader, cfg, fault))
             /\ ( /\ ev.httpMethod = "DELETE"
                  /\ Matches(resp',
                             AuthDeleteResponse(ev.id, ev.headers, cfg, fault)) )
                => SameAnswer(resp',
                              AuthDeleteResponse(ev.id, NoHeader, cfg, fault))
             /\ \A id \in Solo :
                  ( /\ ev.httpMethod = "POST"
                    /\ Matches(resp', AuthCreateResponse(id, ev.body,
                                         ev.headers, cfg, fault)) )
                  => SameAnswer(resp', AuthCreateResponse(id, ev.body,
                                         NoHeader, cfg, fault)) ]_vars

\* C23 witness: a request whose bearer token has a payload that is no JSON
\* is served: the task is returned, with no identity.
C23_Witness ==
  /\ IsAuthResp(resp)
  /\ resp.event.httpMethod = "GET"
  /\ resp.statusCode = 200
  /\ ~Has(resp.event.headers, "absent")
  /\ Len(resp.event.headers.parts) = 3
  /\ ~resp.event.headers.parts[2].json
  /\ ~Identified(resp)

\* C24: the extractor gives nothing when the token's exp claim is absent or
\* is at or before the current time in whole seconds -- an identity is told
\* only of a token whose exp is later than the current second.
C24_ExpiredYieldsNothing ==
  Identified(resp) =>
    /\ Has(PayloadOf(resp), "exp")
    /\ PayloadOf(resp).exp > Seconds(now)

\* C25: with the identity-provider settings configured, the extractor gives
\* an identity only for a header of the bearer scheme; a token with no
\* Bearer prefix yields nothing.
C25_BearerSchemeOnly ==
  Identified(resp) => resp.event.headers.scheme \in {"Bearer", "bearer"}

----------------------------------------------------------------------------
(* Properties of Create's publish step, checked under SpecApi *)

\* C31: Create publishes a work item only after its conditional write
\* succeeded, publishes at most one, carrying the id and topic of the task
\* just written, and publishes none when the queue is not configured, in
\* which case it still returns the created task, stored as QUEUED.
C31_PublishAfterWrite ==
  [][ (resp' # NoResp /\ resp'.event.httpMethod = "POST") =>
        /\ queue \subseteq queue'
        /\ Cardinality(queue' \ queue) <= 1
        /\ \A m \in queue' \ queue :
             /\ m.body.id \notin DOMAIN store
             /\ m.body.id \in DOMAIN store'
             /\ \A i \in DOMAIN store : store'[i] = store[i]
             /\ Status(store', m.body.id) = "QUEUED"
             /\ m.body.topic = store'[m.body.id].topic
             /\ resp'.statusCode = 201
             /\ resp'.body.id = m.body.id
        /\ \A r \in CreateInputs(Trio) :
             ( /\ ~r.cfg.queueUrl
               /\ r.body = resp'.event.body
               /\ Create(r.id, r.body, r.cfg, r.fault) )
             => /\ queue' = queue
                /\ store' # store =>
                     /\ resp'.statusCode = 201
                     /\ resp'.body.id = r.id
                     /\ resp'.body.status = "QUEUED"
                     /\ Status(store', r.id) = "QUEUED" ]_vars

\* C31 witness: Create answered 201 and the queue holds the work item of
\* the task it stored; another task was created with no queue configured
\* and has no work item.
C31_Witness ==
  /\ resp # NoResp
  /\ resp.event.httpMethod = "POST"
  /\ resp.statusCode = 201
  /\ \E m \in queue :
       /\ m.body.id = resp.body.id
       /\ m.body.topic = store[resp.body.id].topic
  /\ \E i \in DOMAIN store :
       /\ Status(store, i) = "QUEUED"
       /\ \A m \in queue : m.body.id # i

----------------------------------------------------------------------------
(* Properties of concurrent worker invocations, checked under SpecDuo *)

InFlight(w) == wk[w].pc # "idle"

\* C32: every worker write (PROCESSING, DONE, ERROR) leaves the task's id,
\* topic and createdAt as they were, sets updatedAt, and leaves every other
\* task's record unchanged; no operation of the API or of the worker writes
\* status QUEUED to a record that exists.
C32_WorkerWriteFrame ==
  [][ /\ \A w \in Workers :
           (wk'[w] # wk[w] /\ store' # store) =>
             LET id == Rec(w).body.id IN
             /\ DOMAIN store' = DOMAIN store \cup {id}
             /\ \A i \in DOMAIN store \ {id} : store'[i] = store[i]
             /\ store'[id].updatedAt = now
             /\ Status(store', id) \in {"PROCESSING", "DONE", "ERROR"}
             /\ id \in DOMAIN store =>
                  \A k \in {"id", "topic", "createdAt"} :
                    /\ Has(store'[id], k) <=> Has(store[id], k)
                    /\ Has(store[id], k) => store'[id][k] = store[id][k]
      /\ \A i \in DOMAIN store \cap DOMAIN store' :
           store'[i] # store[i] => Status(store', i) # "QUEUED" ]_vars

\* C32 witness: a worker wrote PROCESSING to a task at a later clock reading
\* than its creation, while another task's record is in the store.
C32_Witness ==
  \E w \in Workers :
    /\ wk[w].pc = "generate"
    /\ Rec(w).body.id \in live
    /\ Status(store, Rec(w).body.id) = "PROCESSING"
    /\ store[Rec(w).body.id].updatedAt > store[Rec(w).body.id].createdAt
    /\ store[Rec(w).body.id].topic = <<"t">>
    /\ \E i \in live : i # Rec(w).body.id /\ Status(store, i) = "QUEUED"

\* the last report names a work item of task i
NamedIn(i) ==
  /\ report # NoReport
  /\ \E k \in DOMAIN report.batch :
       /\ IsJson(report.batch[k].body)
       /\ Has(report.batch[k].body, "id")
       /\ report.batch[k].body.id = i
       /\ Names(report.batchItemFailures, report.batch[k].messageId)

\* the queue holds no work item of task i
LeftQueue(i) ==
  \A m \in queue : ~(IsJson(m.body) /\ Has(m.body, "id") /\ m.body.id = i)

\* C33: when two worker invocations process the same work item at once and
\* every generation call and store write succeeds, then once both have
\* finished the task is DONE with non-empty researchMd and no error field.
\* An invocation that finishes naming an item which has already left the
\* queue held it while another invocation, which took it from the queue
\* too, finished and had it acknowledged: the two overlapped, and with no
\* invocation in flight both have finished.
C33_ConcurrentEndsDone ==
  \A i \in Ids :
    ( /\ \A w \in Workers : ~InFlight(w)
      /\ NamedIn(i)
      /\ LeftQueue(i)
      /\ i \in live )
    => /\ Status(store, i) = "DONE"
       /\ NonEmptyMd(store[i])
       /\ ~Has(store[i], "error")

----------------------------------------------------------------------------
(* Properties of List's limit and cursor, checked under SpecList *)

\* C35: for every value of the limit parameter, zero, negative and
\* non-numeric values included, the limit List passes to the store query
\* is a whole number from 1 to 100.
C35_LimitWithinRange ==
  (IsList(resp) /\ Has(resp, "QueryCommand")) =>
    /\ Has(resp.QueryCommand.Limit, "n")
    /\ resp.QueryCommand.Limit.n >= 1
    /\ resp.QueryCommand.Limit.n <= MaxLimit

\* the continuation keys the index can report
IndexKeys ==
  { [pk |-> "TASK", createdAt |-> t, id |-> i] : t \in 0..MaxTime, i \in Trio }

----------------------------------------------------------------------------
(* Liveness of processing under redelivery, checked under SpecLive *)

\* C34: if the queue redelivers every item a failure report names and the
\* store and the generation backend eventually succeed, every task created
\* with the queue configured and not deleted eventually reaches status DONE,
\* and its item eventually stops being named in failure reports.
C34_EventuallyDone ==
  \A i \in Solo :
    /\ (i \in live) ~> (i \in DOMAIN store /\ Status(store, i) = "DONE")
    /\ <>[](~NamedIn(i))

====
